---- MODULE Spec2Model ----
(***************************************************************************)
(* Model of the arbitrage backend: the arbitrage calculator, the risk      *)
(* scorer and the market aggregator of app/services/arbitrage_detector.py, *)
(* the analysis of app/services/ai_analyzer.py and the cleanup sweep of    *)
(* app/services/background_tasks.py, all working on one shared Store.      *)
(*                                                                         *)
(* Units.  Decimal odds are integers in hundredths (210 is 2.10).  Money   *)
(* is in cents.  A percentage is in hundredths of a percent (500 is        *)
(* 5.00 %).  A risk score is in tenths (50 is 5.0).  Time is in minutes.   *)
(* Bookmaker identifiers are numbered in their lexicographic order and     *)
(* outcome names are numbered.  Sums of implied probabilities are exact    *)
(* rationals over a common denominator; round(x, 2) is rounding to the     *)
(* nearest hundredth, ties to even.                                        *)
(***************************************************************************)
EXTENDS Integers, Sequences, FiniteSets

VARIABLES
  now,            \* datetime.utcnow(), minutes
  event,          \* the Event handed to the calculator / risk scorer
  market_data,    \* the market handed to the calculator: dict in insertion order
  market_size,    \* number of outcomes of that market
  odds_snapshots, \* Store: the odds_snapshots table
  odds_by_market, \* the aggregator's grouping of the last analysed event
  result,         \* what the function under analysis returned
  pc,             \* position of the harness: "input" or "done"
  arbitrage_opportunities, \* Store: the committed rows of the table, by id
  detectors,      \* the detection cycles: position, transaction, pending rows
  scorer,         \* the AI analysis loop: position, batch, opportunity at the AI
  analyses,       \* on-demand analyses waiting for the AI: id and time to the event
  running,        \* BackgroundTaskManager.running
  tasks,          \* BackgroundTaskManager.tasks: the four loop tasks, by loop
  stopper,        \* position of stop_all_tasks
  collector       \* collect_all_odds: position, sport, events, last answer, seconds slept since

vars == <<now, event, market_data, market_size, odds_snapshots, odds_by_market, result, pc,
          arbitrage_opportunities, detectors, scorer, analyses,
          running, tasks, stopper, collector>>

manager == <<running, tasks, stopper, collector>>

store == <<arbitrage_opportunities, detectors, scorer, analyses>>
scratch == <<market_data, market_size, odds_by_market, result, pc>>

----------------------------------------------------------------------------
(* Bounds of the model *)

MaxOutcomes == 6
MaxBookmakers == 4
MaxSnapshots == 3
MaxCollections == 1
MaxTime == 15
MaxOpportunities == 2

(* Program constants *)

MIN_ARBITRAGE_PERCENTAGE == 200
TOTAL_STAKE == 1000
EXPIRY_MINUTES == 15
FRESHNESS_MINUTES == 30
BASE_RISK == 50
SUPPRESSION_MINUTES == 60
EVENT_HORIZON_MINUTES == 10080
BATCH_LIMIT == 5

----------------------------------------------------------------------------
(* Arithmetic *)

Max(a, b) == IF a >= b THEN a ELSE b
Min(a, b) == IF a <= b THEN a ELSE b

RECURSIVE Gcd(_, _)
Gcd(a, b) == IF b = 0 THEN a ELSE Gcd(b, a % b)

Lcm(a, b) == (a \div Gcd(a, b)) * b

RECURSIVE LcmOf(_)
LcmOf(S) == IF S = {} THEN 1
            ELSE LET x == CHOOSE y \in S : TRUE IN Lcm(x, LcmOf(S \ {x}))

RECURSIVE GcdOf(_)
GcdOf(S) == IF S = {} THEN 0
            ELSE LET x == CHOOSE y \in S : TRUE IN Gcd(x, GcdOf(S \ {x}))

RECURSIVE SumOver(_, _)
SumOver(f, S) == IF S = {} THEN 0
                 ELSE LET x == CHOOSE y \in S : TRUE IN f[x] + SumOver(f, S \ {x})

\* n / d rounded to the nearest integer, ties to even (n >= 0, d > 0)
RoundDiv(n, d) ==
  LET q == n \div d
      r == n % d
  IN IF 2 * r < d THEN q
     ELSE IF 2 * r > d THEN q + 1
     ELSE IF q % 2 = 0 THEN q ELSE q + 1

\* a * b / d rounded as RoundDiv, for an even b, without forming a * b
RoundMulDiv(a, b, d) == (a \div d) * b + RoundDiv((a % d) * b, d)

----------------------------------------------------------------------------
(* Risk scorer: ArbitrageDetector._calculate_risk_score *)

HIGH_VOLATILITY_SPORTS == {"tennis", "basketball_nba"}

\* commence_time is read back timezone-aware from a timezone=True column
\* by drivers that keep the zone; subtracting utcnow() (naive) then raises.
SubSignalRaises(ev) == ev.aware

TimeRisk(time_to_event) ==
  IF time_to_event < 60 THEN 20
  ELSE IF time_to_event < 1440 THEN 10
  ELSE IF time_to_event > 10080 THEN 10
  ELSE 0

BookmakerRisk(num_bookmakers) ==
  IF num_bookmakers >= 4 THEN -10
  ELSE IF num_bookmakers = 2 THEN 10
  ELSE 0

RECURSIVE OldestOddsAge(_, _, _, _)
OldestOddsAge(md, t, i, oldest) ==
  IF i > Len(md) THEN oldest
  ELSE OldestOddsAge(md, t, i + 1, Max(oldest, t - md[i].timestamp))

AgeRisk(oldest_odds_age) ==
  (IF oldest_odds_age > 10 THEN 10 ELSE 0) + (IF oldest_odds_age > 30 THEN 20 ELSE 0)

SportRisk(sport) == IF sport \in HIGH_VOLATILITY_SPORTS THEN 5 ELSE 0

ClampRiskFromBelowOnly(risk_score) == Max(risk_score, 10)

ClampRisk(risk_score) == Min(Max(risk_score, 10), 100)

_calculate_risk_score(ev, md, t) ==
  IF SubSignalRaises(ev) THEN BASE_RISK
  ELSE ClampRisk(BASE_RISK
                 + TimeRisk(ev.commence_time - t)
                 + BookmakerRisk(Len(md))
                 + AgeRisk(OldestOddsAge(md, t, 1, 0))
                 + SportRisk(ev.sport))

----------------------------------------------------------------------------
(* Arbitrage calculator: ArbitrageDetector._calculate_arbitrage *)

None == [kind |-> "None"]

AllOutcomes(md) == UNION {DOMAIN md[i].odds : i \in DOMAIN md}

\* bookmaker_data['odds'].get(outcome, 0)
OddsGet(odds, outcome) == IF outcome \in DOMAIN odds THEN odds[outcome] ELSE 0

IsLaterPositive(odds, best_odd) == odds > 0

\* if odds > best_odd
IsBetter(odds, best_odd) == odds > best_odd

\* the inner loop over market_data.items(), in the dict's insertion order
RECURSIVE BestScan(_, _, _, _)
BestScan(md, outcome, i, best) ==
  IF i > Len(md) THEN best
  ELSE LET odds == OddsGet(md[i].odds, outcome)
       IN IF IsBetter(odds, best.odd)
          THEN BestScan(md, outcome, i + 1, [odd |-> odds, bookmaker |-> md[i].bookmaker])
          ELSE BestScan(md, outcome, i + 1, best)

BestFor(md, outcome) == BestScan(md, outcome, 1, [odd |-> 0, bookmaker |-> 0])

\* implied_probabilities = {outcome: 1/odds}, as exact rationals over one
\* denominator: the probability of outcome o is 100 * w[o] / den.
ImpliedProbabilities(best) ==
  LET raw_den == LcmOf({best[o].odd : o \in DOMAIN best})
      raw_w == [o \in DOMAIN best |-> raw_den \div best[o].odd]
      g == GcdOf({raw_w[o] : o \in DOMAIN best})
  IN [den |-> raw_den \div g, w |-> [o \in DOMAIN best |-> raw_w[o] \div g]]

TotalImpliedSkippingOne(ip) ==
  SumOver(ip.w, DOMAIN ip.w \ {CHOOSE o \in DOMAIN ip.w : TRUE})

\* sum(implied_probabilities.values()), as 100 * TotalImplied / den
TotalImplied(ip) == SumOver(ip.w, DOMAIN ip.w)

\* total_implied_probability >= 1.0
NoArbitrage(ip, total) == 100 * total >= ip.den

BelowMinimumAsFraction(ip, total, min_profit) ==
  100 * (ip.den - 100 * total) < (min_profit \div 100) * total

\* profit_percentage < self.min_profit_percentage, on the unrounded profit
BelowMinimum(ip, total, min_profit) ==
  100 * (ip.den - 100 * total) < min_profit * total

ProfitPercentageToWholePercent(ip, total) ==
  100 * RoundDiv(ip.den - 100 * total, total)

\* round(((1 - total) / total) * 100, 2)
ProfitPercentage(ip, total) == RoundDiv(100 * (ip.den - 100 * total), total)

\* round((probability / total) * total_stake, 2)
Stake(ip, total, outcome) == RoundDiv(100 * TOTAL_STAKE * ip.w[outcome], total)

\* round(total_stake * (profit_percentage / 100), 2)
ExpectedProfit(ip, total) ==
  RoundMulDiv(ip.den, TOTAL_STAKE, total) - 100 * TOTAL_STAKE

\* {bookmaker: {outcome: value}} built by the loop over all_outcomes
ByBookmaker(best, value) ==
  [b \in {best[o].bookmaker : o \in DOMAIN best} |->
     [o \in {x \in DOMAIN best : best[x].bookmaker = b} |-> value[o]]]

_calculate_arbitrage(ev, market_type, md, t, min_profit) ==
  LET all_outcomes == AllOutcomes(md) IN
  IF Cardinality(all_outcomes) < 2 THEN None
  ELSE
    LET found == [o \in all_outcomes |-> BestFor(md, o)]
        best == [o \in {x \in all_outcomes : found[x].odd > 0} |-> found[o]]
        ip == ImpliedProbabilities(best)
        total == TotalImplied(ip)
    IN IF DOMAIN best # all_outcomes THEN None
       ELSE IF NoArbitrage(ip, total) THEN None
       ELSE IF BelowMinimum(ip, total, min_profit) THEN None
       ELSE [kind |-> "opportunity",
             event_id |-> ev.id,
             market_type |-> market_type,
             profit_percentage |-> ProfitPercentage(ip, total),
             total_stake |-> 100 * TOTAL_STAKE,
             expected_profit |-> ExpectedProfit(ip, total),
             bookmaker_stakes |->
               ByBookmaker(best, [o \in all_outcomes |-> Stake(ip, total, o)]),
             bookmaker_odds |-> ByBookmaker(best, [o \in all_outcomes |-> best[o].odd]),
             risk_score |-> _calculate_risk_score(ev, md, t),
             expires_at |-> t + EXPIRY_MINUTES]

----------------------------------------------------------------------------
(* Market aggregator: ArbitrageDetector._analyze_event_for_arbitrage *)

\* the keys of a snapshot's odds_data, in the order the JSON object lists them
MarketTypes == <<"h2h", "totals">>

\* where(event_id == event.id, is_active == True, captured_at > utcnow() - 30 min)
IsFresh(s, ev, t) ==
  /\ s.event_id = ev.id
  /\ s.is_active
  /\ s.captured_at > t - FRESHNESS_MINUTES

FreshSnapshots(snapshots, ev, t) == {s \in snapshots : IsFresh(s, ev, t)}

\* order_by(desc(captured_at)): every order of the rows the database may
\* return, rows of equal captured_at in either order
QueryOrders(rows) ==
  {q \in [1 .. Cardinality(rows) -> rows] :
     /\ \A i, j \in DOMAIN q : i # j => q[i] # q[j]
     /\ \A i, j \in DOMAIN q : i < j => q[i].captured_at >= q[j].captured_at}

\* odds_by_market[market_type][snapshot.bookmaker] = {...}: a new key goes
\* last, an existing key keeps its place and takes the new value
PutBookmaker(md, entry) ==
  IF \E i \in DOMAIN md : md[i].bookmaker = entry.bookmaker
  THEN [i \in DOMAIN md |-> IF md[i].bookmaker = entry.bookmaker THEN entry ELSE md[i]]
  ELSE Append(md, entry)

PutMarket(obm, market_type, entry) ==
  IF \E m \in DOMAIN obm : obm[m].market_type = market_type
  THEN [m \in DOMAIN obm |->
          IF obm[m].market_type = market_type
          THEN [obm[m] EXCEPT !.market_data = PutBookmaker(@, entry)]
          ELSE obm[m]]
  ELSE Append(obm, [market_type |-> market_type, market_data |-> <<entry>>])

\* for market_type, market_odds in snapshot.odds_data.items()
RECURSIVE GroupSnapshot(_, _, _)
GroupSnapshot(obm, s, k) ==
  IF k > Len(MarketTypes) THEN obm
  ELSE IF MarketTypes[k] \in DOMAIN s.odds_data
       THEN GroupSnapshot(
              PutMarket(obm, MarketTypes[k],
                        [bookmaker |-> s.bookmaker,
                         odds |-> s.odds_data[MarketTypes[k]],
                         timestamp |-> s.captured_at]),
              s, k + 1)
       ELSE GroupSnapshot(obm, s, k + 1)

\* for snapshot in odds_snapshots
RECURSIVE GroupByMarket(_, _, _)
GroupByMarket(obm, rows, i) ==
  IF i > Len(rows) THEN obm
  ELSE GroupByMarket(GroupSnapshot(obm, rows[i], 1), rows, i + 1)

EnoughBookmakersWithOne(md) == Len(md) >= 1

\* if len(market_data) >= 2
EnoughBookmakers(md) == Len(md) >= 2

\* for market_type, market_data in odds_by_market.items()
RECURSIVE AnalyzeMarkets(_, _, _, _, _)
AnalyzeMarkets(ev, obm, t, m, opportunities) ==
  IF m > Len(obm) THEN opportunities
  ELSE LET arb_opportunity ==
             IF EnoughBookmakers(obm[m].market_data)
             THEN _calculate_arbitrage(ev, obm[m].market_type, obm[m].market_data, t,
                                       MIN_ARBITRAGE_PERCENTAGE)
             ELSE None
       IN AnalyzeMarkets(ev, obm, t, m + 1,
                         IF arb_opportunity # None
                         THEN Append(opportunities, arb_opportunity)
                         ELSE opportunities)

\* rows: the query's result; returns the grouping and the opportunities
_analyze_event_for_arbitrage(ev, rows, t) ==
  IF Len(rows) < 2
  THEN [odds_by_market |-> <<>>, opportunities |-> <<>>]
  ELSE LET obm == GroupByMarket(<<>>, rows, 1)
       IN [odds_by_market |-> obm,
           opportunities |-> AnalyzeMarkets(ev, obm, t, 1, <<>>)]

----------------------------------------------------------------------------
(* Store: the arbitrage_opportunities table and the tasks that write it *)

IdleDetector == [pc |-> "idle", txn_start |-> 0, found |-> <<>>, idx |-> 1, pending |-> <<>>]

\* what detect_arbitrage_opportunities returns to its caller; the value is
\* kept in result where the cycle is followed event by event
\* (error: the handler of the cycle has logged one)
Returns(opportunities, error) ==
  IF pc = "cycle"
  THEN [kind |-> "cycle", opportunities |-> opportunities, error |-> error]
  ELSE result
IdleScorer == [pc |-> "idle", queue |-> <<>>, current |-> 0, time_to_event |-> 0]

NoStore ==
  /\ arbitrage_opportunities = <<>>
  /\ detectors = <<>>
  /\ scorer = IdleScorer
  /\ analyses = {}

IdleCollector ==
  [pc |-> "idle", sport |-> 1, all_events |-> 0, signal |-> "none", reset |-> "absent", waited |-> 0]

\* BackgroundTaskManager.__init__ and an OddsCollector outside a cycle
NoManager ==
  /\ running = FALSE
  /\ tasks = <<>>
  /\ stopper = "idle"
  /\ collector = IdleCollector

LiveStatuses == {"detected", "analyzed"}

\* Event.status == "upcoming" (never changed by the program),
\* commence_time > utcnow(), commence_time < utcnow() + 7 days
EventIsCandidate(ev, t) ==
  /\ ev.commence_time > t
  /\ ev.commence_time < t + EVENT_HORIZON_MINUTES

RowStampedAtInsert(opp, txn_start) ==
  [event_id |-> opp.event_id, market_type |-> opp.market_type,
   profit_percentage |-> opp.profit_percentage, total_stake |-> opp.total_stake,
   expected_profit |-> opp.expected_profit, bookmaker_stakes |-> opp.bookmaker_stakes,
   bookmaker_odds |-> opp.bookmaker_odds, risk_score |-> opp.risk_score,
   expires_at |-> opp.expires_at, status |-> "detected", detected_at |-> now,
   ai_score |-> 0, model_used |-> "none"]

\* ArbitrageOpportunity(**opp_data): status defaults to "detected",
\* detected_at to the database's now(), the start of the transaction, and
\* ai_score and ai_analysis (of which model_used is kept) to NULL
Row(opp, txn_start) ==
  [event_id |-> opp.event_id, market_type |-> opp.market_type,
   profit_percentage |-> opp.profit_percentage, total_stake |-> opp.total_stake,
   expected_profit |-> opp.expected_profit, bookmaker_stakes |-> opp.bookmaker_stakes,
   bookmaker_odds |-> opp.bookmaker_odds, risk_score |-> opp.risk_score,
   expires_at |-> opp.expires_at, status |-> "detected", detected_at |-> txn_start,
   ai_score |-> 0, model_used |-> "none"]

\* the rows the suppression query of _store_opportunities selects
NoneSimilar(rows, opp, t) == {}

SimilarLive(rows, opp, t) ==
  {i \in DOMAIN rows :
     /\ rows[i].event_id = opp.event_id
     /\ rows[i].market_type = opp.market_type
     /\ rows[i].status \in LiveStatuses
     /\ rows[i].detected_at > t - SUPPRESSION_MINUTES}

RECURSIVE Rows(_, _, _)
Rows(pending, txn_start, i) ==
  IF i > Len(pending) THEN <<>>
  ELSE <<Row(pending[i], txn_start)>> \o Rows(pending, txn_start, i + 1)

ExpirableBeforeOnly(row, t) == row.expires_at < t /\ row.status \in LiveStatuses

\* update(...).where(expires_at <= utcnow(), status in (detected, analyzed))
Expirable(row, t) == row.expires_at <= t /\ row.status \in LiveStatuses

ExpireDetectedRows(rows, t) ==
  [i \in DOMAIN rows |->
     IF Expirable(rows[i], t) /\ rows[i].status = "detected"
     THEN [rows[i] EXCEPT !.status = "expired"] ELSE rows[i]]

ExpireRows(rows, t) ==
  [i \in DOMAIN rows |->
     IF Expirable(rows[i], t) THEN [rows[i] EXCEPT !.status = "expired"] ELSE rows[i]]

MODEL == "gpt-4"

\* what the Analyzer does with a request: the call raises, the answer holds no
\* JSON object, or it is a JSON object with the given ai_score (in tenths)
AnswerScores == {80, 150}

Answers ==
  {[kind |-> k, ai_score |-> 0] : k \in {"failed", "unparseable"}} \cup
  {[kind |-> "json", ai_score |-> a] : a \in AnswerScores}

\* The Store specifications run with the Analyzer unavailable, so that every
\* analysis there is the rule-based one; the scoring specification has it
\* answer as well.
AnalyzerAnswers == IF pc = "scoring" THEN Answers ELSE {a \in Answers : a.kind # "json"}

\* _validate_analysis: "ai_score": max(1, min(10, ...)), "model_used": self.model
_validate_analysis(answer) ==
  [ai_score |-> Max(10, Min(100, answer.ai_score)), model_used |-> MODEL]

\* the rule-based score, in tenths; profit in hundredths of a percent, risk in
\* tenths, the time to the event in minutes
_get_default_analysis(opportunity, time_to_event) ==
  LET profit == IF opportunity.profit_percentage > 500 THEN 20
                ELSE IF opportunity.profit_percentage > 300 THEN 10 ELSE 0
      risk == IF opportunity.risk_score < 30 THEN 10
              ELSE IF opportunity.risk_score > 70 THEN 0 - 20 ELSE 0
      time == IF time_to_event < 120 THEN 0 - 10
              ELSE IF time_to_event > 2880 THEN 10 ELSE 0
  IN [ai_score |-> Max(10, Min(100, 50 + profit + risk + time)),
      model_used |-> "rule_based_fallback"]

\* _get_ai_analysis with _parse_ai_response: every exception of the call or of
\* the parsing returns the default analysis
_get_ai_analysis(answer, opportunity, time_to_event) ==
  IF answer.kind = "json" THEN _validate_analysis(answer)
  ELSE _get_default_analysis(opportunity, time_to_event)

MarkScoredOnly(rows, id, ai_analysis) ==
  [rows EXCEPT ![id].ai_score = ai_analysis.ai_score,
               ![id].model_used = ai_analysis.model_used]

\* update(...).where(id == opportunity_id)
\*   .values(ai_score=..., ai_analysis=..., status="analyzed")
MarkAnalyzed(rows, id, ai_analysis) ==
  [rows EXCEPT ![id].ai_score = ai_analysis.ai_score,
               ![id].model_used = ai_analysis.model_used,
               ![id].status = "analyzed"]

\* where(status == "detected", expires_at > utcnow())
\*   .order_by(profit_percentage.desc()).limit(limit)
Unanalyzed(rows, t) ==
  {i \in DOMAIN rows : rows[i].status = "detected" /\ rows[i].expires_at > t}

RECURSIVE ByProfit(_, _)
ByProfit(rows, ids) ==
  IF ids = {} THEN {<<>>}
  ELSE UNION {{<<i>> \o rest : rest \in ByProfit(rows, ids \ {i})} :
                i \in {x \in ids : \A y \in ids :
                                      rows[x].profit_percentage >= rows[y].profit_percentage}}

Unlimited(seq, n) == seq

Limit(seq, n) == IF Len(seq) <= n THEN seq ELSE SubSeq(seq, 1, n)

BatchSelections(rows, t, limit) ==
  {Limit(q, limit) : q \in ByProfit(rows, Unanalyzed(rows, t))}

----------------------------------------------------------------------------
(* The calculator on its own: every market of the bounded input set *)

Absent == -1
Prices == {0, 200, 202, 204, 210, 294, 700}

\* A bookmaker's quotes for a market of n outcomes: the first k outcomes at
\* one level, the others at a second one; a level is a price or Absent
\* (the bookmaker does not list the outcome).
Sheet(n, k, p, q) ==
  LET level == [o \in 1 .. n |-> IF o <= k THEN p ELSE q]
  IN [o \in {x \in 1 .. n : level[x] # Absent} |-> level[o]]

Sheets(n) ==
  {Sheet(n, k, p, q) : k \in 1 .. n, p \in Prices \cup {Absent}, q \in Prices \cup {Absent}}

Entry(b, odds, ts) == [bookmaker |-> b, odds |-> odds, timestamp |-> ts]

\* the bookmakers that quote in this harness, entering in either order
CalcBookmakers == {1, 2}

CalcEvent == [id |-> 1, sport |-> "soccer_epl", commence_time |-> 600, aware |-> FALSE]

\* The caller has fixed the event and the number of outcomes of the market.
InitCalc ==
  /\ now = 0
  /\ event = CalcEvent
  /\ market_size \in 2 .. MaxOutcomes
  /\ market_data = <<>>
  /\ odds_snapshots = {}
  /\ odds_by_market = <<>>
  /\ result = None
  /\ pc = "input"
  /\ NoStore
  /\ NoManager

\* One more bookmaker enters the market, as the aggregator's loop adds a key.
Quote ==
  /\ pc = "input"
  /\ Len(market_data) < Cardinality(CalcBookmakers)
  /\ \E b \in CalcBookmakers, s \in Sheets(market_size) :
       /\ \A i \in DOMAIN market_data : market_data[i].bookmaker # b
       /\ market_data' = Append(market_data, Entry(b, s, now))
  /\ UNCHANGED <<now, event, market_size, odds_snapshots, odds_by_market, result, pc>>
  /\ UNCHANGED <<store, manager>>

\* _analyze_event_for_arbitrage calls the calculator on a market of at least
\* two bookmakers.
Calculate ==
  /\ pc = "input"
  /\ Len(market_data) >= 2
  /\ result' = _calculate_arbitrage(event, "h2h", market_data, now, MIN_ARBITRAGE_PERCENTAGE)
  /\ pc' = "done"
  /\ UNCHANGED <<now, event, market_size, market_data, odds_snapshots, odds_by_market>>
  /\ UNCHANGED <<store, manager>>

NextCalc == Quote \/ Calculate

SpecCalc == InitCalc /\ [][NextCalc]_vars

----------------------------------------------------------------------------
(* The risk scorer on its own: every input of the bounded input set *)

CommenceTimes == {-120, 30, 60, 600, 1440, 5000, 10080, 10081}
Sports == {"tennis", "basketball_nba", "soccer_epl"}
Ages == {0, 10, 11, 30, 31, 100000}

InitRisk ==
  /\ now = 0
  /\ \E c \in CommenceTimes, s \in Sports, a \in BOOLEAN :
       event = [id |-> 1, sport |-> s, commence_time |-> c, aware |-> a]
  /\ market_size = 2
  /\ market_data = <<>>
  /\ odds_snapshots = {}
  /\ odds_by_market = <<>>
  /\ result = None
  /\ pc = "input"
  /\ NoStore
  /\ NoManager

\* One more bookmaker's snapshot, of some age, enters the market.
Observe ==
  /\ pc = "input"
  /\ Len(market_data) < MaxBookmakers
  /\ \E age \in Ages :
       market_data' = Append(market_data,
                             Entry(Len(market_data) + 1, Sheet(2, 2, 210, 210), now - age))
  /\ UNCHANGED <<now, event, market_size, odds_snapshots, odds_by_market, result, pc>>
  /\ UNCHANGED <<store, manager>>

Score ==
  /\ pc = "input"
  /\ result' = [kind |-> "risk", risk_score |-> _calculate_risk_score(event, market_data, now)]
  /\ pc' = "done"
  /\ UNCHANGED <<now, event, market_size, market_data, odds_snapshots, odds_by_market>>
  /\ UNCHANGED <<store, manager>>

NextRisk == Observe \/ Score

SpecRisk == InitRisk /\ [][NextRisk]_vars

----------------------------------------------------------------------------
(* The aggregator on its own: every snapshot table of the bounded input set *)

AggBookmakers == {1, 2}
AggAges == {0, 20, 30}
SheetA == Sheet(2, 1, 210, 150)
SheetB == Sheet(2, 1, 150, 210)
SheetT == Sheet(2, 2, 210, 210)
AggOddsData ==
  {[m \in {"h2h"} |-> SheetA], [m \in {"h2h"} |-> SheetB], [m \in {"h2h"} |-> SheetT],
   [m \in {"totals"} |-> SheetT],
   [m \in {"h2h", "totals"} |-> IF m = "h2h" THEN SheetA ELSE SheetB],
   [m \in {"h2h", "totals"} |-> IF m = "h2h" THEN SheetB ELSE SheetA]}

Snapshot(e, b, od, ts, active) ==
  [event_id |-> e, bookmaker |-> b, odds_data |-> od, captured_at |-> ts,
   is_active |-> active]

InitAgg ==
  /\ now = 0
  /\ event = CalcEvent
  /\ market_size = 2
  /\ market_data = <<>>
  /\ odds_snapshots = {}
  /\ odds_by_market = <<>>
  /\ result = None
  /\ pc = "input"
  /\ NoStore
  /\ NoManager

\* The collector has stored one more snapshot (OddsCollector.store_events_and_odds).
StoreSnapshot ==
  /\ pc = "input"
  /\ Cardinality(odds_snapshots) < MaxSnapshots
  /\ \/ \E b \in AggBookmakers, od \in AggOddsData, age \in AggAges, active \in BOOLEAN :
          odds_snapshots' = odds_snapshots \cup {Snapshot(event.id, b, od, now - age, active)}
     \/ odds_snapshots' =
          odds_snapshots \cup {Snapshot(event.id + 1, 2, [m \in {"h2h"} |-> SheetB], now, TRUE)}
  /\ UNCHANGED <<now, event, market_size, market_data, odds_by_market, result, pc>>
  /\ UNCHANGED <<store, manager>>

Analyze ==
  /\ pc = "input"
  /\ \E rows \in QueryOrders(FreshSnapshots(odds_snapshots, event, now)) :
       LET r == _analyze_event_for_arbitrage(event, rows, now)
       IN /\ odds_by_market' = r.odds_by_market
          /\ result' = [kind |-> "opportunities", list |-> r.opportunities]
  /\ pc' = "done"
  /\ UNCHANGED <<now, event, market_size, market_data, odds_snapshots>>
  /\ UNCHANGED <<store, manager>>

NextAgg == StoreSnapshot \/ Analyze

SpecAgg == InitAgg /\ [][NextAgg]_vars

----------------------------------------------------------------------------
(* The Store under the detection cycles, the analyses, the cleanup sweep and *)
(* the clock                                                                 *)

TickMinutes == EXPIRY_MINUTES

\* what one collection cycle stores for the event: one snapshot per bookmaker
Collections ==
  {<<[m \in {"h2h"} |-> SheetA], [m \in {"h2h"} |-> SheetB]>>,
   <<[m \in {"h2h", "totals"} |-> IF m = "h2h" THEN SheetA ELSE SheetB],
     [m \in {"h2h", "totals"} |-> IF m = "h2h" THEN SheetB ELSE SheetA]>>}

StoreEvents ==
  {[id |-> 1, sport |-> "soccer_epl", commence_time |-> 600, aware |-> a] : a \in BOOLEAN}

InitStoreWith(n) ==
  /\ now = 0
  /\ event \in StoreEvents
  /\ market_size = 2
  /\ market_data = <<>>
  /\ odds_snapshots = {}
  /\ odds_by_market = <<>>
  /\ result = None
  /\ pc = "store"
  /\ arbitrage_opportunities = <<>>
  /\ detectors = [d \in 1 .. n |-> IdleDetector]
  /\ scorer = IdleScorer
  /\ analyses = {}
  /\ NoManager

\* one process: the detection loop of BackgroundTaskManager
InitStore == InitStoreWith(1)

\* two processes, each with its own detection loop
InitRace == InitStoreWith(2)

Tick ==
  /\ now + TickMinutes <= MaxTime
  /\ now' = now + TickMinutes
  /\ UNCHANGED <<event, odds_snapshots, scratch, manager, store>>

\* OddsCollector.store_events_and_odds: a snapshot per bookmaker, captured now
Collect ==
  /\ Cardinality({s.captured_at : s \in odds_snapshots}) < MaxCollections
  /\ \A s \in odds_snapshots : s.captured_at # now
  /\ \E c \in Collections :
       odds_snapshots' = odds_snapshots \cup
         {Snapshot(event.id, b, c[b], now, TRUE) : b \in DOMAIN c}
  /\ UNCHANGED <<now, event, scratch, manager, store>>

\* the opportunities the running cycles may still insert
Uncommitted ==
  SumOver([d \in DOMAIN detectors |-> Len(detectors[d].found)], DOMAIN detectors)

\* detect_arbitrage_opportunities up to the call of _store_opportunities: the
\* event query opens the transaction, every candidate event is analysed
detect_arbitrage_opportunities(d) ==
  /\ detectors[d].pc = "idle"
  /\ \E rows \in QueryOrders(FreshSnapshots(odds_snapshots, event, now)) :
       LET found == IF EventIsCandidate(event, now)
                    THEN _analyze_event_for_arbitrage(event, rows, now).opportunities
                    ELSE <<>>
       IN /\ Len(arbitrage_opportunities) + Uncommitted + Len(found) <= MaxOpportunities
          /\ detectors' =
               [detectors EXCEPT ![d] =
                  IF found = <<>> THEN IdleDetector
                  ELSE [pc |-> "store", txn_start |-> now, found |-> found, idx |-> 1,
                        pending |-> <<>>]]
  /\ UNCHANGED <<now, event, odds_snapshots, scratch, manager, arbitrage_opportunities,
               scorer, analyses>>

\* _store_opportunities, one pass of the loop: the suppression query reads the
\* committed rows (the cycle's own pending rows are for other pairs, one
\* opportunity per event and market), scalar_one_or_none() raises on two rows
\* or more, db.add() on none
_store_opportunities(d) ==
  /\ detectors[d].pc = "store"
  /\ LET self == detectors[d]
         opp == self.found[self.idx]
         existing == SimilarLive(arbitrage_opportunities, opp, now)
     IN /\ detectors' =
          [detectors EXCEPT ![d] =
             IF Cardinality(existing) >= 2 THEN IdleDetector
             ELSE [self EXCEPT
                     !.pending = IF existing = {} THEN Append(self.pending, opp)
                                 ELSE self.pending,
                     !.idx = self.idx + 1,
                     !.pc = IF self.idx = Len(self.found) THEN "commit" ELSE "store"]]
        /\ result' = IF Cardinality(existing) >= 2 THEN Returns(<<>>, TRUE) ELSE result
  /\ UNCHANGED <<now, event, odds_snapshots, market_data, market_size, odds_by_market, pc,
               manager, arbitrage_opportunities, scorer, analyses>>

\* await db.commit(): the pending rows become visible, all at once
Commit(d) ==
  /\ detectors[d].pc = "commit"
  /\ arbitrage_opportunities' =
       arbitrage_opportunities \o Rows(detectors[d].pending, detectors[d].txn_start, 1)
  /\ detectors' = [detectors EXCEPT ![d] = IdleDetector]
  /\ result' = Returns(detectors[d].found, FALSE)
  /\ UNCHANGED <<now, event, odds_snapshots, market_data, market_size, odds_by_market, pc,
               manager, scorer, analyses>>

\* the rows a rollback leaves in the table: the committed ones
RolledBackKeepingPending(rows, self) == rows \o Rows(self.pending, self.txn_start, 1)

RolledBack(rows, self) == rows

\* a duplicate check, the flush of an insert or the commit raises: rollback,
\* the error is raised again and the cycle returns []
Rollback(d) ==
  /\ detectors[d].pc \in {"store", "commit"}
  /\ arbitrage_opportunities' = RolledBack(arbitrage_opportunities, detectors[d])
  /\ detectors' = [detectors EXCEPT ![d] = IdleDetector]
  /\ result' = Returns(<<>>, TRUE)
  /\ UNCHANGED <<now, event, odds_snapshots, market_data, market_size, odds_by_market, pc,
               manager, scorer, analyses>>

\* analyze_opportunity up to the AI call: the reads.  The time to the event
\* is computed from event.commence_time, which raises as in the risk scorer.
AnalysisRaises(ev) == SubSignalRaises(ev)

\* batch_analyze_opportunities: the selection
batch_analyze_opportunities ==
  /\ scorer.pc = "idle"
  /\ \E q \in BatchSelections(arbitrage_opportunities, now, BATCH_LIMIT) :
       scorer' = IF q = <<>> THEN IdleScorer ELSE [IdleScorer EXCEPT !.pc = "batch", !.queue = q]
  /\ UNCHANGED <<now, event, odds_snapshots, scratch, manager, arbitrage_opportunities,
               detectors, analyses>>

\* the batch loop calls analyze_opportunity for the next opportunity; an
\* exception is logged and the loop continues
BatchAnalyze ==
  /\ scorer.pc = "batch"
  /\ scorer' =
       IF AnalysisRaises(event)
       THEN IF Len(scorer.queue) = 1 THEN IdleScorer
            ELSE [scorer EXCEPT !.queue = Tail(scorer.queue)]
       ELSE [pc |-> "ai", queue |-> Tail(scorer.queue), current |-> Head(scorer.queue),
             time_to_event |-> event.commence_time - now]
  /\ UNCHANGED <<now, event, odds_snapshots, scratch, manager, arbitrage_opportunities,
               detectors, analyses>>

\* the Analyzer has answered or failed: the analysis, the update, the commit
BatchUpdate ==
  /\ scorer.pc = "ai"
  /\ \E answer \in AnalyzerAnswers :
       arbitrage_opportunities' =
         MarkAnalyzed(arbitrage_opportunities, scorer.current,
                      _get_ai_analysis(answer, arbitrage_opportunities[scorer.current],
                                       scorer.time_to_event))
  /\ scorer' = IF scorer.queue = <<>> THEN IdleScorer
               ELSE [scorer EXCEPT !.pc = "batch", !.current = 0, !.time_to_event = 0]
  /\ UNCHANGED <<now, event, odds_snapshots, scratch, manager, detectors, analyses>>

\* POST /{opportunity_id}/analyze: 404 on an unknown id, 400 when
\* expires_at <= utcnow(), otherwise analyze_opportunity runs in the background
analyze_opportunity(id) ==
  /\ id \in DOMAIN arbitrage_opportunities
  /\ arbitrage_opportunities[id].expires_at > now
  /\ ~AnalysisRaises(event)
  /\ \A a \in analyses : a.id # id
  /\ analyses' = analyses \cup {[id |-> id, time_to_event |-> event.commence_time - now]}
  /\ UNCHANGED <<now, event, odds_snapshots, scratch, manager, arbitrage_opportunities,
               detectors, scorer>>

\* the on-demand analysis has its AI answer: update and commit
AnalysisUpdate(id) ==
  /\ \E a \in analyses, answer \in AnalyzerAnswers :
       /\ a.id = id
       /\ arbitrage_opportunities' =
            MarkAnalyzed(arbitrage_opportunities, id,
                         _get_ai_analysis(answer, arbitrage_opportunities[id], a.time_to_event))
       /\ analyses' = analyses \ {a}
  /\ UNCHANGED <<now, event, odds_snapshots, scratch, manager, detectors, scorer>>

\* the cleanup sweep: one UPDATE, committed
_cleanup_expired_opportunities ==
  /\ arbitrage_opportunities' = ExpireRows(arbitrage_opportunities, now)
  /\ UNCHANGED <<now, event, odds_snapshots, scratch, manager, detectors, scorer, analyses>>

\* the bet has been placed: the execution component, outside this program,
\* moves an analyzed opportunity to executed
Execute(id) ==
  /\ id \in DOMAIN arbitrage_opportunities
  /\ arbitrage_opportunities[id].status = "analyzed"
  /\ arbitrage_opportunities' = [arbitrage_opportunities EXCEPT ![id].status = "executed"]
  /\ UNCHANGED <<now, event, odds_snapshots, scratch, manager, detectors, scorer, analyses>>

NextStore ==
  \/ Tick
  \/ Collect
  \/ \E d \in DOMAIN detectors : detect_arbitrage_opportunities(d)
  \/ \E d \in DOMAIN detectors : _store_opportunities(d)
  \/ \E d \in DOMAIN detectors : Commit(d)
  \/ \E d \in DOMAIN detectors : Rollback(d)
  \/ batch_analyze_opportunities
  \/ BatchAnalyze
  \/ BatchUpdate
  \/ \E id \in DOMAIN arbitrage_opportunities : analyze_opportunity(id)
  \/ \E id \in DOMAIN arbitrage_opportunities : AnalysisUpdate(id)
  \/ \E id \in DOMAIN arbitrage_opportunities : Execute(id)
  \/ _cleanup_expired_opportunities

SpecStore == InitStore /\ [][NextStore]_vars

SpecRace == InitRace /\ [][NextStore]_vars

----------------------------------------------------------------------------
(* Properties of the calculator and the risk scorer *)

Abs(x) == IF x < 0 THEN -x ELSE x

Returned == pc = "done" /\ result.kind = "opportunity"

\* The best price of an outcome, read off the market without the scan.
MaxPrice(md, o) ==
  LET quoted == {OddsGet(md[i].odds, o) : i \in DOMAIN md}
  IN CHOOSE p \in quoted : \A q \in quoted : p >= q

EveryOutcomePriced(md) == \A o \in AllOutcomes(md) : MaxPrice(md, o) > 0

\* The sum of 1/best_odds over the outcomes is BestSum.num / BestSum.den.
BestSum(md) ==
  LET best == [o \in AllOutcomes(md) |-> MaxPrice(md, o)]
      den == LcmOf({best[o] : o \in DOMAIN best})
  IN [den |-> den,
      num |-> 100 * SumOver([o \in DOMAIN best |-> den \div best[o]], DOMAIN best)]

\* C1: a market of at least two bookmakers whose best-price implied
\* probabilities sum to 1.0 or more yields no opportunity.
C1_NoOpportunityAtOrAboveOne ==
  (/\ pc = "done"
   /\ Len(market_data) >= 2
   /\ EveryOutcomePriced(market_data)
   /\ LET total == BestSum(market_data) IN total.num >= total.den)
  => result = None

\* three outcomes at best price 2.94 each: implied sum 1.0204
C1_Witness ==
  /\ pc = "done"
  /\ Len(market_data) >= 2
  /\ AllOutcomes(market_data) = {1, 2, 3}
  /\ \A o \in {1, 2, 3} : MaxPrice(market_data, o) = 294
  /\ \E i \in DOMAIN market_data : \E o \in DOMAIN market_data[i].odds :
       market_data[i].odds[o] # 294
  /\ result = None

Legs(by_bookmaker) ==
  UNION {{<<b, o>> : o \in DOMAIN by_bookmaker[b]} : b \in DOMAIN by_bookmaker}

LegSum(by_bookmaker) ==
  SumOver([leg \in Legs(by_bookmaker) |-> by_bookmaker[leg[1]][leg[2]]],
          Legs(by_bookmaker))

\* C4: the stakes of a returned opportunity, each rounded to the cent, add
\* up to total_stake within one cent.
C4_StakesSumToTotal ==
  Returned => Abs(LegSum(result.bookmaker_stakes) - result.total_stake) <= 1

\* total_implied recomputed from the returned bookmaker_odds:
\* 100 * OddsNumerator / OddsDenominator
OddsDenominator(bo) == LcmOf({bo[leg[1]][leg[2]] : leg \in Legs(bo)})
OddsNumerator(bo) ==
  SumOver([leg \in Legs(bo) |-> OddsDenominator(bo) \div bo[leg[1]][leg[2]]], Legs(bo))

\* (1/total_implied - 1) x 100 to two decimals
RecomputedProfit(bo) ==
  RoundDiv(100 * (OddsDenominator(bo) - 100 * OddsNumerator(bo)), OddsNumerator(bo))

TwoBookmakersAt210(bo) ==
  /\ Cardinality(DOMAIN bo) = 2
  /\ \A b \in DOMAIN bo : Cardinality(DOMAIN bo[b]) = 1
  /\ \A leg \in Legs(bo) : bo[leg[1]][leg[2]] = 210

\* C5: the profit percentage of a returned opportunity is (1/total_implied
\* - 1) x 100 for the total_implied recomputed from its bookmaker_odds; two
\* bookmakers contributing 2.10 each give 5.00 % and stakes of 500.00 each.
C5_ProfitFromReturnedOdds ==
  Returned =>
    /\ result.profit_percentage = RecomputedProfit(result.bookmaker_odds)
    /\ TwoBookmakersAt210(result.bookmaker_odds) =>
         /\ result.profit_percentage = 500
         /\ \A leg \in Legs(result.bookmaker_stakes) :
              result.bookmaker_stakes[leg[1]][leg[2]] = 50000

C5_Witness ==
  /\ Returned
  /\ TwoBookmakersAt210(result.bookmaker_odds)
  /\ result.profit_percentage = 500

\* C6: a returned opportunity has a profit percentage of at least the
\* configured minimum, and a market whose exact profit is below the minimum
\* (1.0 % against 2.0 %) is rejected.
C6_ProfitAtLeastMinimum ==
  /\ Returned => result.profit_percentage >= MIN_ARBITRAGE_PERCENTAGE
  /\ (/\ pc = "done"
      /\ EveryOutcomePriced(market_data)
      /\ LET total == BestSum(market_data)
         IN 100 * (total.den - total.num) < MIN_ARBITRAGE_PERCENTAGE * (total.num \div 100))
     => result = None

\* an opportunity created exactly at the minimum (2.04 against 2.04)
C6_Witness ==
  /\ Returned
  /\ result.profit_percentage = MIN_ARBITRAGE_PERCENTAGE
  /\ \A o \in AllOutcomes(market_data) : MaxPrice(market_data, o) = 204

\* C8: the risk score lies in [1, 10] for every input, a raising sub-signal
\* included.
C8_RiskScoreInRange ==
  (pc = "done" /\ result.kind = "risk")
  => (result.risk_score >= 10 /\ result.risk_score <= 100)

\* an event already started, two stale snapshots, a volatile sport: the raw
\* sum 11.5 is clamped to 10
C8_Witness ==
  /\ pc = "done"
  /\ result.kind = "risk"
  /\ ~SubSignalRaises(event)
  /\ event.commence_time < now
  /\ Len(market_data) = 2
  /\ \E i \in DOMAIN market_data : now - market_data[i].timestamp > 30
  /\ event.sport \in HIGH_VOLATILITY_SPORTS
  /\ result.risk_score = 100

----------------------------------------------------------------------------
(* Properties of the aggregator *)

Analysed == pc = "done" /\ result.kind = "opportunities"

\* the distinct bookmakers with a fresh active snapshot of the event that
\* lists the market
Contributors(market_type) ==
  {s.bookmaker : s \in {x \in odds_snapshots :
                          /\ x.event_id = event.id
                          /\ x.is_active
                          /\ x.captured_at > now - FRESHNESS_MINUTES
                          /\ market_type \in DOMAIN x.odds_data}}

\* C7: no opportunity comes out for a market to which fewer than two distinct
\* bookmakers contributed a fresh active snapshot.
C7_TwoContributorsNeeded ==
  Analysed =>
    \A k \in DOMAIN result.list :
      Cardinality(Contributors(result.list[k].market_type)) >= 2

\* two fresh snapshots, one bookmaker alone on h2h at 2.10/2.10 (which by
\* itself has an implied sum below one), and nothing returned for h2h
C7_Witness ==
  /\ Analysed
  /\ Cardinality(FreshSnapshots(odds_snapshots, event, now)) >= 2
  /\ Cardinality(Contributors("h2h")) = 1
  /\ \E s \in FreshSnapshots(odds_snapshots, event, now) :
       "h2h" \in DOMAIN s.odds_data /\ s.odds_data["h2h"] = SheetT
  /\ \A k \in DOMAIN result.list : result.list[k].market_type # "h2h"

MarketDataOf(market_type) ==
  LET m == CHOOSE x \in DOMAIN odds_by_market : odds_by_market[x].market_type = market_type
  IN odds_by_market[m].market_data

\* the bookmakers of a market that offer the maximum price for an outcome
BestOfferers(md, o) ==
  {md[i].bookmaker : i \in {x \in DOMAIN md : OddsGet(md[x].odds, o) = MaxPrice(md, o)}}

SmallestId(S) == CHOOSE b \in S : \A c \in S : b <= c

AssignedBookmaker(opp, o) ==
  CHOOSE b \in DOMAIN opp.bookmaker_odds : o \in DOMAIN opp.bookmaker_odds[b]

\* C10: an outcome for which several bookmakers offer the same maximum price
\* is assigned to the one with the lexicographically smallest identifier.
C10_TieGoesToSmallestId ==
  Analysed =>
    \A k \in DOMAIN result.list :
      LET opp == result.list[k]
          md == MarketDataOf(opp.market_type)
      IN \A o \in AllOutcomes(md) :
           AssignedBookmaker(opp, o) = SmallestId(BestOfferers(md, o))

----------------------------------------------------------------------------
(* Properties of the Store *)

Ids == DOMAIN arbitrage_opportunities

SamePair(r, q) == r.event_id = q.event_id /\ r.market_type = q.market_type

WithinWindow(r, q) == Abs(r.detected_at - q.detected_at) < SUPPRESSION_MINUTES

\* C2: the Store never holds two opportunities for the same (event, market),
\* both detected or analyzed, detected within one hour of each other,
\* whatever the interleaving of the detection cycles.
C2_NoLiveDuplicate ==
  \A i, j \in Ids :
    (/\ i # j
     /\ SamePair(arbitrage_opportunities[i], arbitrage_opportunities[j])
     /\ arbitrage_opportunities[i].status \in LiveStatuses
     /\ arbitrage_opportunities[j].status \in LiveStatuses)
    => ~WithinWindow(arbitrage_opportunities[i], arbitrage_opportunities[j])

StatusMoves ==
  {<<"detected", "analyzed">>, <<"detected", "expired">>,
   <<"analyzed", "executed">>, <<"analyzed", "expired">>}

\* C3: a status only moves detected -> analyzed -> (executed | expired) or
\* detected -> expired; an expired or executed opportunity keeps its status.
C3_StatusMovesForward ==
  [][\A i \in Ids :
       \/ arbitrage_opportunities'[i].status = arbitrage_opportunities[i].status
       \/ <<arbitrage_opportunities[i].status, arbitrage_opportunities'[i].status>>
            \in StatusMoves]_vars

\* after is before with exactly the due opportunities set to expired
SweepExact(before, after, t) ==
  /\ DOMAIN after = DOMAIN before
  /\ \A i \in DOMAIN before :
       IF before[i].expires_at <= t /\ before[i].status \in {"detected", "analyzed"}
       THEN after[i] = [before[i] EXCEPT !.status = "expired"]
       ELSE after[i] = before[i]

\* C9: one run of the cleanup sweep sets to expired every detected or
\* analyzed opportunity with expires_at <= now and leaves every other
\* opportunity as it was: in every reachable Store the table the sweep writes
\* is exact, and every step of the sweep writes it.
C9_SweepExpiresExactlyTheDue ==
  /\ [](SweepExact(arbitrage_opportunities,
                   ExpireRows(arbitrage_opportunities, now), now))
  /\ [][_cleanup_expired_opportunities
         => SweepExact(arbitrage_opportunities, arbitrage_opportunities', now)]_vars

\* a swept opportunity next to an executed one whose expiry has passed too
C9_Witness ==
  /\ \E i \in Ids : /\ arbitrage_opportunities[i].status = "expired"
                     /\ arbitrage_opportunities[i].expires_at <= now
  /\ \E i \in Ids : /\ arbitrage_opportunities[i].status = "executed"
                     /\ arbitrage_opportunities[i].expires_at <= now

----------------------------------------------------------------------------
(* Properties of the aggregator, continued *)

\* the fresh active snapshots of the event by one bookmaker that list a market
SnapshotsOf(b, market_type) ==
  {s \in FreshSnapshots(odds_snapshots, event, now) :
     s.bookmaker = b /\ market_type \in DOMAIN s.odds_data}

LatestOf(S) == {s \in S : \A x \in S : s.captured_at >= x.captured_at}

\* C11: for a bookmaker with several fresh active snapshots listing a market,
\* the grouping holds the odds and the captured_at of the latest of them.
C11_LatestSnapshotWins ==
  Analysed =>
    \A m \in DOMAIN odds_by_market :
      \A i \in DOMAIN odds_by_market[m].market_data :
        LET entry == odds_by_market[m].market_data[i]
            market_type == odds_by_market[m].market_type
        IN \E s \in LatestOf(SnapshotsOf(entry.bookmaker, market_type)) :
             /\ entry.timestamp = s.captured_at
             /\ entry.odds = s.odds_data[market_type]

----------------------------------------------------------------------------
(* The background task manager: four scheduled loops, each a task that      *)
(* repeats one unit of work and a sleep, and the start and stop of all of   *)
(* them. Sleeps are in seconds.                                              *)

Collection == 1
Detection == 2
Scoring == 3
Cleanup == 4
Loops == {Collection, Detection, Scoring, Cleanup}

\* the sleep after a unit of work that returned
Interval(l) ==
  CASE l = Collection -> 30
    [] l = Detection -> 10
    [] l = Scoring -> 60
    [] l = Cleanup -> 3600

\* the sleep in the loop's handler of an error of the unit of work
Backoff(l) ==
  CASE l = Collection -> 60
    [] l = Detection -> 30
    [] l = Scoring -> 120
    [] l = Cleanup -> 1800

\* a failure of the unit's transaction reaches the loop: store_events_and_odds
\* rolls back and raises through collect_all_odds; the other units roll back
\* and log, or raise into a handler of the unit that returns normally
Propagates(l) == l = Collection

SessionLeftOpen(l) == FALSE

\* the unit's database work runs inside "async with AsyncSessionLocal()"
SessionScoped(l) == l \in Loops

\* leaving the session's scope closes the session: a transaction still open
\* is rolled back (or its commit had reached the database)
CloseSession(txn) == IF txn = "open" THEN {"committed", "rolled_back"} ELSE {txn}

\* asyncio.create_task: a task that has not run yet
NewTask == [pc |-> "created", sleep |-> 0, cancel |-> FALSE, txn |-> "none", failed |-> FALSE]

Terminated == {"exited", "cancelled"}

Put(l, task) == [tasks EXCEPT ![l] = task]

start_all_tasks ==
  /\ ~running
  /\ stopper # "waiting"
  /\ tasks = <<>>
  /\ running' = TRUE
  /\ tasks' = [l \in Loops |-> NewTask]
  /\ stopper' = "idle"
  /\ UNCHANGED <<now, event, odds_snapshots, scratch, store, collector>>

IterateOnce(task) == [task EXCEPT !.pc = "exited", !.sleep = 0]

\* "while self.running": the test that starts a unit of work or leaves the loop
Iterate(task) ==
  IF running
  THEN [task EXCEPT !.pc = "work", !.sleep = 0, !.txn = "none", !.failed = FALSE]
  ELSE [task EXCEPT !.pc = "exited", !.sleep = 0]

\* the task is scheduled for the first time
Run(l) ==
  /\ l \in DOMAIN tasks
  /\ tasks[l].pc = "created" /\ ~tasks[l].cancel
  /\ tasks' = Put(l, Iterate(tasks[l]))
  /\ UNCHANGED <<now, event, odds_snapshots, scratch, store, running, stopper, collector>>

\* the unit of work returns without having written anything
UnitReturns(l) ==
  /\ l \in DOMAIN tasks
  /\ tasks[l].pc = "work" /\ ~tasks[l].cancel
  /\ tasks' = Put(l, [tasks[l] EXCEPT !.pc = "sleep", !.sleep = Interval(l)])
  /\ UNCHANGED <<now, event, odds_snapshots, scratch, store, running, stopper, collector>>

AfterErrorLeavesTheLoop(l, task) == [task EXCEPT !.pc = "exited", !.sleep = 0]

\* the loop's "except Exception": log and sleep the backoff
AfterError(l, task) == [task EXCEPT !.pc = "backoff", !.sleep = Backoff(l)]

\* the unit of work raises an error to the loop
UnitRaises(l) ==
  /\ l \in DOMAIN tasks
  /\ tasks[l].pc = "work" /\ ~tasks[l].cancel
  /\ tasks' = Put(l, AfterError(l, tasks[l]))
  /\ UNCHANGED <<now, event, odds_snapshots, scratch, store, running, stopper, collector>>

\* the unit issues the first statement of its transaction
Begin(l) ==
  /\ l \in DOMAIN tasks
  /\ tasks[l].pc = "work" /\ ~tasks[l].cancel
  /\ tasks' = Put(l, [tasks[l] EXCEPT !.pc = "txn", !.txn = "open"])
  /\ UNCHANGED <<now, event, odds_snapshots, scratch, store, running, stopper, collector>>

\* "await db.commit()" succeeds and the unit returns
CommitUnit(l) ==
  /\ l \in DOMAIN tasks
  /\ tasks[l].pc = "txn" /\ ~tasks[l].cancel
  /\ tasks' = Put(l, [tasks[l] EXCEPT !.pc = "sleep", !.sleep = Interval(l),
                                      !.txn = "committed"])
  /\ UNCHANGED <<now, event, odds_snapshots, scratch, store, running, stopper, collector>>

\* what the loop does after its unit rolled a failed transaction back
AfterPersistFailure(l, task) ==
  IF Propagates(l)
  THEN AfterError(l, task)
  ELSE [task EXCEPT !.pc = "sleep", !.sleep = Interval(l)]

\* a statement or the commit of the transaction raises: "await db.rollback()"
PersistFails(l) ==
  /\ l \in DOMAIN tasks
  /\ tasks[l].pc = "txn" /\ ~tasks[l].cancel
  /\ tasks' = Put(l, AfterPersistFailure(l, [tasks[l] EXCEPT !.txn = "rolled_back",
                                                            !.failed = TRUE]))
  /\ UNCHANGED <<now, event, odds_snapshots, scratch, store, running, stopper, collector>>

\* a sleep ends
Wake(l) ==
  /\ l \in DOMAIN tasks
  /\ tasks[l].pc \in {"sleep", "backoff"} /\ ~tasks[l].cancel
  /\ tasks' = Put(l, Iterate(tasks[l]))
  /\ UNCHANGED <<now, event, odds_snapshots, scratch, store, running, stopper, collector>>

AfterCancelSwallowedInSleep(task) ==
  IF task.pc \in {"sleep", "backoff"}
  THEN [task EXCEPT !.pc = "work", !.sleep = 0, !.cancel = FALSE]
  ELSE [task EXCEPT !.pc = "exited", !.sleep = 0, !.cancel = FALSE]

\* where CancelledError, thrown into the task at its await, leaves the loop:
\* the unit and the inter-tick sleep are inside the try, whose
\* "except asyncio.CancelledError" breaks; the backoff sleep is inside the
\* handler of "except Exception", so the error leaves the coroutine; a task
\* that never ran is cancelled without running
AfterCancel(task) ==
  IF task.pc \in {"created", "backoff"}
  THEN [task EXCEPT !.pc = "cancelled", !.sleep = 0, !.cancel = FALSE]
  ELSE [task EXCEPT !.pc = "exited", !.sleep = 0, !.cancel = FALSE]

\* the cancellation requested by task.cancel() is delivered
Cancelled(l) ==
  /\ l \in DOMAIN tasks
  /\ tasks[l].cancel /\ tasks[l].pc \notin Terminated
  /\ \E txn \in (IF SessionScoped(l) THEN CloseSession(tasks[l].txn) ELSE {tasks[l].txn}) :
       tasks' = Put(l, [AfterCancel(tasks[l]) EXCEPT !.txn = txn])
  /\ UNCHANGED <<now, event, odds_snapshots, scratch, store, running, stopper, collector>>

\* task.cancel(): a request on a task that is not done
Cancel(task) == IF task.pc \in Terminated THEN task ELSE [task EXCEPT !.cancel = TRUE]

\* stop_all_tasks up to its "await asyncio.gather"
stop_all_tasks ==
  /\ stopper # "waiting"
  /\ running' = FALSE
  /\ tasks' = [l \in DOMAIN tasks |-> Cancel(tasks[l])]
  /\ stopper' = IF tasks # <<>> THEN "waiting" ELSE "returned"
  /\ UNCHANGED <<now, event, odds_snapshots, scratch, store, collector>>

\* gather returns once every task it was given (the list at the time of the
\* call: the first four) is done; the list, as it is by then, is cleared
Stopped ==
  /\ stopper = "waiting"
  /\ \A l \in DOMAIN tasks \cap Loops : tasks[l].pc \in Terminated
  /\ tasks' = <<>>
  /\ stopper' = "returned"
  /\ UNCHANGED <<now, event, odds_snapshots, scratch, store, running, collector>>

InitLoops ==
  /\ now = 0
  /\ event = CalcEvent
  /\ odds_snapshots = {}
  /\ market_data = <<>>
  /\ market_size = 0
  /\ odds_by_market = <<>>
  /\ result = None
  /\ pc = "loops"
  /\ NoStore
  /\ NoManager

NextLoops ==
  \/ start_all_tasks
  \/ \E l \in Loops : Run(l)
  \/ \E l \in Loops : UnitReturns(l)
  \/ \E l \in Loops : UnitRaises(l)
  \/ \E l \in Loops : Begin(l)
  \/ \E l \in Loops : CommitUnit(l)
  \/ \E l \in Loops : PersistFails(l)
  \/ \E l \in Loops : Wake(l)
  \/ \E l \in Loops : Cancelled(l)
  \/ stop_all_tasks
  \/ Stopped

SpecLoops == InitLoops /\ [][NextLoops]_vars

\* the event loop runs every task whose cancellation is pending, and resumes
\* stop_all_tasks once the tasks it gathers are done
SpecStop ==
  /\ SpecLoops
  /\ \A l \in Loops : WF_vars(Cancelled(l))
  /\ WF_vars(Stopped)

----------------------------------------------------------------------------
(* Properties of the task manager *)

\* the backoffs the loops are to sleep after an error, in seconds
BackoffSeconds == <<60, 30, 120, 1800>>

\* the task of loop l took the step
Stepped(l) == l \in DOMAIN tasks /\ l \in DOMAIN tasks' /\ tasks'[l] # tasks[l]

\* C12: while the manager is running (no cancellation is requested then), no
\* loop terminates, whatever its unit of work raises: a loop that caught an
\* error of its unit sleeps its own backoff (60, 30, 120, 1800 seconds), and
\* the end of that sleep starts another unit of work.
C12_LoopsSurviveErrors ==
  /\ [](running =>
          \A l \in DOMAIN tasks :
            /\ ~tasks[l].cancel
            /\ tasks[l].pc \notin Terminated
            /\ tasks[l].pc = "backoff" => tasks[l].sleep = BackoffSeconds[l])
  /\ [][\A l \in Loops :
          /\ UnitRaises(l) => tasks'[l].pc = "backoff"
          /\ running /\ running' /\ Stepped(l) /\ tasks[l].pc = "backoff"
               => tasks'[l].pc = "work"]_vars

\* every loop is in the backoff sleep after an error of its unit
C12_Witness ==
  /\ running
  /\ tasks # <<>>
  /\ \A l \in DOMAIN tasks : tasks[l].pc = "backoff"

\* C14: after stop_all_tasks is called every loop task that is not done has
\* its cancellation requested, the step a task takes under a requested
\* cancellation terminates it (from the inter-tick sleep and from the backoff
\* sleep too, so no further unit of work starts), and stop_all_tasks returns,
\* only when all of them have terminated.
C14_StopCancelsAndWaits ==
  /\ [](stopper = "waiting" =>
          /\ ~running
          /\ \A l \in DOMAIN tasks : tasks[l].cancel \/ tasks[l].pc \in Terminated)
  /\ [][/\ \A l \in Loops : Stepped(l) /\ tasks[l].cancel => tasks'[l].pc \in Terminated
        /\ stopper = "waiting" /\ stopper' = "returned"
             => \A l \in DOMAIN tasks : tasks[l].pc \in Terminated]_vars
  /\ (stopper = "waiting" ~> stopper = "returned")

\* stop_all_tasks waits and every task is done: one cancelled in its backoff
\* sleep, another in its inter-tick sleep after a committed unit
C14_Witness ==
  /\ stopper = "waiting"
  /\ tasks # <<>>
  /\ \A l \in DOMAIN tasks : tasks[l].pc \in Terminated
  /\ \E l \in DOMAIN tasks : tasks[l].pc = "cancelled" /\ tasks[l].failed
  /\ \E l \in DOMAIN tasks : tasks[l].pc = "exited" /\ tasks[l].txn = "committed"

C13_PersistFailureBacksOff ==
  Detection \in DOMAIN tasks =>
    (tasks[Detection].failed /\ tasks[Detection].pc \in {"sleep", "backoff"}
       => /\ tasks[Detection].txn = "rolled_back"
          /\ tasks[Detection].pc = "backoff"
          /\ tasks[Detection].sleep = 30)

----------------------------------------------------------------------------
(* The odds collector: one collection cycle requests the odds of each       *)
(* supported sport in turn from the OddsSource and stores what it got.       *)

supported_sports == <<"soccer", "americanfootball_nfl", "basketball_nba", "tennis">>

\* what the OddsSource answers: events, an empty list, a rate-limit signal,
\* another status, or no answer at all (the request raises)
Statuses == {"200", "200 empty", "429", "500", "raised"}

\* the X-RateLimit-Reset header of a 429: absent, not a number, or a time
\* (seconds from now) in the past, within the minute, beyond the minute
Resets == {"absent", "invalid", "past", "near", "far"}

ResetSeconds(reset) ==
  CASE reset = "past" -> 0 - 10
    [] reset = "near" -> 30
    [] reset = "far" -> 90

\* _handle_rate_limit: the seconds slept; without the header nothing is
\* awaited, and int() of a header that is not a number raises into the
\* handler of collect_odds_for_sport
_handle_rate_limit(reset) ==
  IF reset \in {"absent", "invalid"} THEN 0 ELSE Max(ResetSeconds(reset), 60)

\* collect_all_odds enters: no sport requested yet
StartCycle ==
  /\ collector.pc = "idle"
  /\ collector' = [IdleCollector EXCEPT !.pc = "request"]
  /\ UNCHANGED <<now, event, odds_snapshots, scratch, store, running, tasks, stopper>>

\* one turn of the loop over the sports: the request, the handling of the
\* answer, and the second slept between sports
collect_odds_for_sport(status, reset) ==
  /\ collector.pc = "request"
  /\ collector.sport <= Len(supported_sports)
  /\ status = "429" \/ reset = "absent"
  /\ collector' =
       [pc |-> IF collector.sport < Len(supported_sports) THEN "request" ELSE "store",
        sport |-> collector.sport + 1,
        all_events |-> collector.all_events + (IF status = "200" THEN 1 ELSE 0),
        signal |-> status,
        reset |-> reset,
        waited |-> (IF status = "429" THEN _handle_rate_limit(reset) ELSE 0) + 1]
  /\ UNCHANGED <<now, event, odds_snapshots, scratch, store, running, tasks, stopper>>

\* the end of the cycle: the events collected are stored, if any
EndCycle ==
  /\ collector.pc = "store"
  /\ collector' = [collector EXCEPT !.pc = "idle"]
  /\ UNCHANGED <<now, event, odds_snapshots, scratch, store, running, tasks, stopper>>

InitCollect ==
  /\ now = 0
  /\ event = CalcEvent
  /\ odds_snapshots = {}
  /\ market_data = <<>>
  /\ market_size = 0
  /\ odds_by_market = <<>>
  /\ result = None
  /\ pc = "collect"
  /\ NoStore
  /\ NoManager

NextCollect ==
  \/ StartCycle
  \/ \E status \in Statuses, reset \in Resets : collect_odds_for_sport(status, reset)
  \/ EndCycle

SpecCollect == InitCollect /\ [][NextCollect]_vars

\* C16: when the OddsSource has answered the last request with a rate-limit
\* signal, with or without a reset hint, the cycle goes on (to the next sport
\* or to storing) and at least 60 seconds of cooldown have passed before the
\* next request is issued.
C16_CooldownAfterRateLimit ==
  collector.signal = "429" =>
    /\ collector.pc \in {"request", "store", "idle"}
    /\ collector.pc = "request" => collector.waited >= 60

----------------------------------------------------------------------------
(* Properties of the calculator, continued *)

\* the bookmakers under which a by-bookmaker mapping lists the outcome
Holders(by_bookmaker, o) == {b \in DOMAIN by_bookmaker : o \in DOMAIN by_bookmaker[b]}

\* the odds the bookmaker quoted for the outcome in the market
QuotedBy(md, b, o) ==
  LET i == CHOOSE j \in DOMAIN md : md[j].bookmaker = b IN OddsGet(md[i].odds, o)

\* C18: in a returned opportunity every outcome of the union of the
\* bookmakers' outcomes is listed under exactly one bookmaker in
\* bookmaker_odds and under the same one in bookmaker_stakes, that bookmaker
\* quotes the maximum price of the outcome and the recorded odds are that
\* maximum; a market with an outcome that no bookmaker prices above zero
\* yields no opportunity.
C18_EveryOutcomeCoveredOnceAtBestPrice ==
  pc = "done" =>
    /\ Returned =>
         /\ \A b \in DOMAIN result.bookmaker_odds :
              DOMAIN result.bookmaker_odds[b] \subseteq AllOutcomes(market_data)
         /\ \A o \in AllOutcomes(market_data) :
              /\ Cardinality(Holders(result.bookmaker_odds, o)) = 1
              /\ Holders(result.bookmaker_stakes, o) = Holders(result.bookmaker_odds, o)
              /\ \A b \in Holders(result.bookmaker_odds, o) :
                   /\ QuotedBy(market_data, b, o) = MaxPrice(market_data, o)
                   /\ result.bookmaker_odds[b][o] = MaxPrice(market_data, o)
    /\ ~EveryOutcomePriced(market_data) => result = None

\* an opportunity over three outcomes whose best prices come from two
\* bookmakers, one of them beaten on an outcome it quotes too
C18_Witness ==
  /\ Returned
  /\ Cardinality(AllOutcomes(market_data)) >= 3
  /\ Cardinality(DOMAIN result.bookmaker_odds) = 2
  /\ \E b \in DOMAIN result.bookmaker_odds, i \in DOMAIN market_data, o \in AllOutcomes(market_data) :
       /\ market_data[i].bookmaker # b
       /\ o \in DOMAIN result.bookmaker_odds[b]
       /\ OddsGet(market_data[i].odds, o) > 0
       /\ OddsGet(market_data[i].odds, o) < result.bookmaker_odds[b][o]

----------------------------------------------------------------------------
(* Properties of the Store, continued *)

\* C19: every stored opportunity has expires_at > detected_at, however much
\* time passes in the cycle between the calculation, which fixes expires_at,
\* and the commit of the insert, which assigns detected_at.
C19_ExpiresAfterDetected ==
  \A i \in Ids : arbitrage_opportunities[i].expires_at > arbitrage_opportunities[i].detected_at

\* a stored opportunity still "detected" whose expiry has been reached: the
\* clock moved a whole time-to-live between its calculation and now
C19_Witness ==
  \E i \in Ids :
    /\ arbitrage_opportunities[i].status = "detected"
    /\ arbitrage_opportunities[i].expires_at <= now
    /\ \A d \in DOMAIN detectors : detectors[d].pc = "idle"

----------------------------------------------------------------------------
(* Kelly stakes: ArbitrageDetector.calculate_kelly_stakes on the returned   *)
(* opportunities of two-outcome markets with short and long prices.         *)
(* Probabilities, fractions and stakes (in cents) are exact rationals.      *)

EDGE_FACTOR == 105            \* 1.05, in hundredths
ASSUMED_PROBABILITY == 95     \* 0.95, in hundredths
KELLY_FRACTION == 25          \* 0.25, in hundredths
MAX_STAKE_PERCENTAGE == 10
DEFAULT_BANKROLL == 1000000   \* cents
MIN_KELLY_STAKE == 1000       \* cents

Ratio(num, den) ==
  LET g == Gcd(Abs(num), Abs(den))
  IN IF num = 0 THEN [num |-> 0, den |-> 1] ELSE [num |-> num \div g, den |-> den \div g]

Plus(x, y) == Ratio(x.num * y.den + y.num * x.den, x.den * y.den)

Less(x, y) == x.num * y.den < y.num * x.den

\* implied_prob = 1 / odds; true_prob = implied_prob * 1.05;
\* if true_prob > 1: true_prob = 0.95
TrueProbability(odds) ==
  IF EDGE_FACTOR > odds THEN Ratio(ASSUMED_PROBABILITY, 100) ELSE Ratio(EDGE_FACTOR, odds)

\* b = odds - 1; f = (b * true_prob - (1 - true_prob)) / b; f = f * kelly_fraction
KellyFraction(odds) ==
  LET p == TrueProbability(odds)
      f == Ratio(odds * p.num - 100 * p.den, p.den * (odds - 100))
  IN Ratio(f.num * KELLY_FRACTION, f.den * 100)

\* stake = bankroll * f * (max_stake_percentage / 100)
KellyStake(odds, bankroll) ==
  LET f == KellyFraction(odds)
  IN Ratio((bankroll \div 100) * MAX_STAKE_PERCENTAGE * f.num, f.den)

\* the legs of the opportunity: <<bookmaker, outcome>>, the key of a stake
KellyLegs(opp) ==
  {leg \in (DOMAIN opp.bookmaker_odds) \X AllOutcomes(market_data) :
     leg[2] \in DOMAIN opp.bookmaker_odds[leg[1]]}

RECURSIVE SumStakes(_, _)
SumStakes(stake, legs) ==
  IF legs = {} THEN Ratio(0, 1)
  ELSE LET leg == CHOOSE x \in legs : TRUE
       IN Plus(stake[leg], SumStakes(stake, legs \ {leg}))

\* the result of the "except Exception" of calculate_kelly_stakes
NoKelly(opp) ==
  [kind |-> "kelly", bookmaker_odds |-> opp.bookmaker_odds, true_prob |-> <<>>,
   kelly_stakes |-> <<>>, total_kelly_stake |-> Ratio(0, 1), bankroll_percentage |-> Ratio(0, 1)]

calculate_kelly_stakes(opp, bankroll) ==
  LET legs == KellyLegs(opp)
      odds == [leg \in legs |-> opp.bookmaker_odds[leg[1]][leg[2]]]
  IN IF \E leg \in legs : odds[leg] = 0 \/ odds[leg] = 100 THEN NoKelly(opp)
     ELSE
       LET stake == [leg \in legs |-> KellyStake(odds[leg], bankroll)]
           staked == {leg \in legs : stake[leg].num > 0}
           total == SumStakes(stake, staked)
       IN [kind |-> "kelly",
           bookmaker_odds |-> opp.bookmaker_odds,
           true_prob |-> [leg \in legs |-> TrueProbability(odds[leg])],
           kelly_stakes |->
             [leg \in staked |-> IF Less(stake[leg], Ratio(MIN_KELLY_STAKE, 1))
                                 THEN Ratio(MIN_KELLY_STAKE, 1) ELSE stake[leg]],
           total_kelly_stake |-> total,
           bankroll_percentage |-> Ratio(total.num * 100, total.den * bankroll)]

KellyPrices == {104, 105, 108, 110, 111, 2000, 10000}

KellySheets == {Sheet(2, 1, p, q) : p \in KellyPrices, q \in KellyPrices}

InitKelly ==
  /\ now = 0
  /\ event = CalcEvent
  /\ market_size = 2
  /\ market_data = <<>>
  /\ odds_snapshots = {}
  /\ odds_by_market = <<>>
  /\ result = None
  /\ pc = "input"
  /\ NoStore
  /\ NoManager

\* a bookmaker's quotes enter the market
QuoteKelly ==
  /\ pc = "input"
  /\ Len(market_data) < Cardinality(CalcBookmakers)
  /\ \E b \in CalcBookmakers, s \in KellySheets :
       /\ \A i \in DOMAIN market_data : market_data[i].bookmaker # b
       /\ market_data' = Append(market_data, Entry(b, s, now))
  /\ UNCHANGED <<now, event, market_size, odds_snapshots, odds_by_market, result, pc>>
  /\ UNCHANGED <<store, manager>>

\* the Kelly stakes of the opportunity the calculator returned
Kelly ==
  /\ Returned
  /\ result' = calculate_kelly_stakes(result, DEFAULT_BANKROLL)
  /\ pc' = "kelly"
  /\ UNCHANGED <<now, event, market_size, market_data, odds_snapshots, odds_by_market>>
  /\ UNCHANGED <<store, manager>>

NextKelly == QuoteKelly \/ Calculate \/ Kelly

SpecKelly == InitKelly /\ [][NextKelly]_vars

\* C20: for every leg of the opportunity (its odds are above 1) the true
\* probability assumed in the Kelly formula is at most 0.95.
C20_TrueProbabilityAtMost95 ==
  pc = "kelly" =>
    \A leg \in DOMAIN result.true_prob :
      result.bookmaker_odds[leg[1]][leg[2]] > 100
        => result.true_prob[leg].num * 100 <= 95 * result.true_prob[leg].den

----------------------------------------------------------------------------
(* Secondary scoring on its own: the batch over detected opportunities of   *)
(* several profits and risks, for events near and far, with an Analyzer     *)
(* that answers, fails, or answers without a JSON object.                   *)

ScoringProfits == {250, 301, 501}
ScoringRisks == {40, 70, 71}
ScoringCommenceTimes == {60, 600, 3000}

ScoringEvents ==
  {[id |-> 1, sport |-> "soccer_epl", commence_time |-> c, aware |-> a] :
     c \in ScoringCommenceTimes, a \in BOOLEAN}

\* an opportunity as the calculator returns it, of the given profit and risk
ScoringOpportunity(profit, risk) ==
  [kind |-> "opportunity", event_id |-> event.id, market_type |-> "h2h",
   profit_percentage |-> profit, total_stake |-> 100 * TOTAL_STAKE,
   expected_profit |-> (profit * TOTAL_STAKE) \div 100,
   bookmaker_stakes |-> <<>>, bookmaker_odds |-> <<>>,
   risk_score |-> risk, expires_at |-> now + EXPIRY_MINUTES]

InitScoring ==
  /\ now = 0
  /\ event \in ScoringEvents
  /\ odds_snapshots = {}
  /\ market_data = <<>>
  /\ market_size = 0
  /\ odds_by_market = <<>>
  /\ result = None
  /\ pc = "scoring"
  /\ arbitrage_opportunities = <<>>
  /\ detectors = <<>>
  /\ scorer = IdleScorer
  /\ analyses = {}
  /\ NoManager

\* a detection cycle has stored an opportunity
Detected ==
  /\ Len(arbitrage_opportunities) < MaxOpportunities
  /\ \E profit \in ScoringProfits, risk \in ScoringRisks :
       arbitrage_opportunities' =
         Append(arbitrage_opportunities, Row(ScoringOpportunity(profit, risk), now))
  /\ UNCHANGED <<now, event, odds_snapshots, scratch, manager, detectors, scorer, analyses>>

NextScoring ==
  \/ Detected
  \/ batch_analyze_opportunities
  \/ BatchAnalyze
  \/ BatchUpdate

SpecScoring == InitScoring /\ [][NextScoring]_vars

\* the rule-based score, in tenths: 5.0, plus 2 above 5 % profit or 1 above
\* 3 %, plus 1 below risk 3 or minus 2 above risk 7, minus 1 within two hours
\* of the event or plus 1 beyond 48 hours
RuleBasedScore(profit, risk, minutes) ==
  50 + (IF profit > 500 THEN 20 ELSE IF profit > 300 THEN 10 ELSE 0)
     + (IF risk < 30 THEN 10 ELSE IF risk > 70 THEN -20 ELSE 0)
     + (IF minutes < 120 THEN -10 ELSE IF minutes > 2880 THEN 10 ELSE 0)

\* C17: an opportunity whose Analyzer call failed or answered without a JSON
\* object has the rule-based ai_score, which lies in [1,10] and is determined
\* by its profit percentage, its risk score and the time to the event, and
\* the status analyzed; and the update of an opportunity leaves the rest of
\* the batch to be processed.
C17_FallbackScoresAndBatchGoesOn ==
  /\ [](\A i \in Ids :
          arbitrage_opportunities[i].model_used = "rule_based_fallback" =>
            /\ arbitrage_opportunities[i].status = "analyzed"
            /\ arbitrage_opportunities[i].ai_score \in 10 .. 100
            /\ arbitrage_opportunities[i].ai_score =
                 RuleBasedScore(arbitrage_opportunities[i].profit_percentage,
                                arbitrage_opportunities[i].risk_score,
                                event.commence_time - now))
  /\ [][BatchUpdate /\ scorer.queue # <<>>
          => scorer'.pc = "batch" /\ scorer'.queue = scorer.queue]_vars

\* two opportunities of one batch, both scored by the rules, differently
C17_Witness ==
  \E i, j \in Ids :
    /\ arbitrage_opportunities[i].model_used = "rule_based_fallback"
    /\ arbitrage_opportunities[j].model_used = "rule_based_fallback"
    /\ arbitrage_opportunities[i].ai_score < arbitrage_opportunities[j].ai_score
    /\ scorer.pc = "idle"

----------------------------------------------------------------------------
(* The calculator on markets with a long shot: a favourite at 1.03 against  *)
(* an outsider at 6241.80, next to an even price.                           *)

LongshotPrices == {103, 210, 624180}

LongshotSheets == {Sheet(2, 1, p, q) : p \in LongshotPrices, q \in LongshotPrices}

\* a bookmaker's quotes enter the market
QuoteLongshot ==
  /\ pc = "input"
  /\ Len(market_data) < Cardinality(CalcBookmakers)
  /\ \E b \in CalcBookmakers, s \in LongshotSheets :
       /\ \A i \in DOMAIN market_data : market_data[i].bookmaker # b
       /\ market_data' = Append(market_data, Entry(b, s, now))
  /\ UNCHANGED <<now, event, market_size, odds_snapshots, odds_by_market, result, pc>>
  /\ UNCHANGED <<store, manager>>

NextLongshot == QuoteLongshot \/ Calculate

SpecLongshot == InitKelly /\ [][NextLongshot]_vars

\* C21: in every returned opportunity the payout of every outcome, its stake
\* (cents) times its odds (hundredths), both as returned, exceeds the total
\* stake.
C21_EveryOutcomePaysMoreThanStaked ==
  Returned =>
    \A b \in DOMAIN result.bookmaker_stakes :
      \A o \in DOMAIN result.bookmaker_stakes[b] :
        result.bookmaker_stakes[b][o] * result.bookmaker_odds[b][o] > 100 * result.total_stake

----------------------------------------------------------------------------
(* Properties of the risk scorer, continued *)

\* the oldest age, in minutes, among the snapshots of the market
MaxAge(md, t) ==
  IF md = <<>> THEN 0
  ELSE LET ages == {t - md[i].timestamp : i \in DOMAIN md} \cup {0}
       IN CHOOSE a \in ages : \A x \in ages : a >= x

\* clamp(5 + T + B + A + S, 1, 10) in tenths, with the time to the event and
\* the ages in minutes
ExpectedRisk(ev, md, t) ==
  LET minutes == ev.commence_time - t
      T == IF minutes < 60 THEN 20
           ELSE IF minutes < 1440 THEN 10
           ELSE IF minutes > 10080 THEN 10 ELSE 0
      B == IF Len(md) >= 4 THEN -10 ELSE IF Len(md) = 2 THEN 10 ELSE 0
      A == (IF MaxAge(md, t) > 10 THEN 10 ELSE 0) + (IF MaxAge(md, t) > 30 THEN 20 ELSE 0)
      S == IF ev.sport \in {"tennis", "basketball_nba"} THEN 5 ELSE 0
      sum == 50 + T + B + A + S
  IN IF sum < 10 THEN 10 ELSE IF sum > 100 THEN 100 ELSE sum

\* C22: for every time to the event, bookmaker count, oldest snapshot age and
\* sport the risk score returned is clamp(5 + T + B + A + S, 1, 10).
C22_RiskScoreIsTheClampedSum ==
  (pc = "done" /\ result.kind = "risk")
    => result.risk_score = ExpectedRisk(event, market_data, now)

----------------------------------------------------------------------------
(* One detection cycle followed event by event: the event query, the loop   *)
(* over the selected events with its try/except, then the persistence       *)

\* odds_data that is no JSON object (null, a list): odds_data.items() raises
Malformed == [malformed |-> <<>>]

CycleCommenceTimes == <<10, 600, 700>>

\* the events table, in the order of commence_time
EventTable ==
  [i \in DOMAIN CycleCommenceTimes |->
     [id |-> i, sport |-> event.sport, commence_time |-> CycleCommenceTimes[i],
      aware |-> event.aware]]

\* the event query of detect_arbitrage_opportunities
SelectedEvents(t) == SelectSeq(EventTable, LAMBDA ev : EventIsCandidate(ev, t))

CycleCollections ==
  Collections \cup {<<Malformed, [m \in {"h2h"} |-> SheetB]>>}

\* the grouping loop of _analyze_event_for_arbitrage reads odds_data.items()
\* of every row, after the early return on fewer than two rows
AnalysisOfEventRaises(rows) ==
  /\ Len(rows) >= 2
  /\ \E i \in DOMAIN rows : rows[i].odds_data = Malformed

InitCycle ==
  /\ now \in {0, TickMinutes}
  /\ event \in StoreEvents
  /\ market_size = 2
  /\ market_data = <<>>
  /\ odds_snapshots = {}
  /\ odds_by_market = <<>>
  /\ result = None
  /\ pc = "cycle"
  /\ arbitrage_opportunities = <<>>
  /\ detectors = <<IdleDetector>>
  /\ scorer = IdleScorer
  /\ analyses = {}
  /\ NoManager

\* OddsCollector.store_events_and_odds for one event of the table
CollectFor ==
  /\ \E e \in DOMAIN EventTable, c \in CycleCollections :
       /\ \A s \in odds_snapshots : s.event_id # e
       /\ odds_snapshots' = odds_snapshots \cup
            {Snapshot(e, b, c[b], now, TRUE) : b \in DOMAIN c}
  /\ UNCHANGED <<now, event, scratch, manager, store>>

\* the event query: the cycle's transaction begins, events is the selection
SelectEvents(d) ==
  /\ detectors[d].pc = "idle"
  /\ detectors' =
       [detectors EXCEPT ![d] =
          [pc |-> "analyze", txn_start |-> now, found |-> <<>>, idx |-> 1,
           pending |-> <<>>, events |-> SelectedEvents(now), next |-> 1, errors |-> {}]]
  /\ result' = None
  /\ UNCHANGED <<now, event, odds_snapshots, market_data, market_size, odds_by_market, pc,
               manager, arbitrage_opportunities, scorer, analyses>>

\* except Exception: the error is logged and the loop continues
AbortCycle(self, ev) ==
  [self EXCEPT !.errors = self.errors \cup {ev.id}, !.found = <<>>,
               !.next = Len(self.events) + 1]

SkipEvent(self, ev) ==
  [self EXCEPT !.errors = self.errors \cup {ev.id}, !.next = self.next + 1]

\* one pass of the loop over events
AnalyzeEvent(d) ==
  /\ detectors[d].pc = "analyze"
  /\ detectors[d].next <= Len(detectors[d].events)
  /\ LET self == detectors[d]
         ev == self.events[self.next]
     IN \E rows \in QueryOrders(FreshSnapshots(odds_snapshots, ev, now)) :
          detectors' =
            [detectors EXCEPT ![d] =
               IF AnalysisOfEventRaises(rows) THEN SkipEvent(self, ev)
               ELSE [self EXCEPT
                       !.found = self.found \o
                                   _analyze_event_for_arbitrage(ev, rows, now).opportunities,
                       !.next = self.next + 1]]
  /\ UNCHANGED <<now, event, odds_snapshots, scratch, manager, arbitrage_opportunities,
               scorer, analyses>>

\* after the loop: if opportunities, _store_opportunities; else return them
EndOfEvents(d) ==
  /\ detectors[d].pc = "analyze"
  /\ detectors[d].next > Len(detectors[d].events)
  /\ IF detectors[d].found = <<>>
     THEN /\ detectors' = [detectors EXCEPT ![d] = IdleDetector]
          /\ result' = Returns(<<>>, FALSE)
     ELSE /\ detectors' = [detectors EXCEPT ![d].pc = "store"]
          /\ result' = result
  /\ UNCHANGED <<now, event, odds_snapshots, market_data, market_size, odds_by_market, pc,
               manager, arbitrage_opportunities, scorer, analyses>>

NextCycle ==
  \/ CollectFor
  \/ SelectEvents(1)
  \/ AnalyzeEvent(1)
  \/ EndOfEvents(1)
  \/ _store_opportunities(1)
  \/ Commit(1)
  \/ Rollback(1)

SpecCycle == InitCycle /\ [][NextCycle]_vars

\* the (event, market) pairs of a list of opportunities
Pairs(opportunities) ==
  {<<opportunities[i].event_id, opportunities[i].market_type>> : i \in DOMAIN opportunities}

\* the pairs the analysis of one event yields
PairsOf(ev, t) ==
  LET rows == CHOOSE r \in QueryOrders(FreshSnapshots(odds_snapshots, ev, t)) : TRUE
  IN Pairs(_analyze_event_for_arbitrage(ev, rows, t).opportunities)

\* the loop over events took one event: it has raised, or it has not
LoopStep(self, after) ==
  LET ev == self.events[self.next]
      raised == ev.id \in after.errors
  IN /\ after.pc = "analyze"
     /\ after.events = self.events
     /\ after.next = self.next + 1
     /\ after.errors \in {self.errors, self.errors \cup {ev.id}}
     /\ raised => after.found = self.found
     /\ ~raised =>
          /\ SubSeq(after.found, 1, Len(self.found)) = self.found
          /\ Pairs(after.found) = Pairs(self.found) \cup PairsOf(ev, now)

----------------------------------------------------------------------------
(* The task manager under callers that do not wait for stop_all_tasks       *)

\* start_all_tasks called while stop_all_tasks awaits its gather: running is
\* False again, so the call goes on; the four new tasks are appended to the
\* list that still holds the four tasks being cancelled
start_all_tasks_during_stop ==
  /\ ~running
  /\ stopper = "waiting"
  /\ running' = TRUE
  /\ tasks' = tasks \o [l \in Loops |-> NewTask]
  /\ UNCHANGED <<now, event, odds_snapshots, scratch, store, stopper, collector>>

NextManager == NextLoops \/ start_all_tasks_during_stop

SpecManager == InitLoops /\ [][NextManager]_vars

\* C24: once the calls of start_all_tasks and stop_all_tasks have returned,
\* the manager holds exactly four loop tasks when running and none when
\* stopped.
C24_FourTasksWhenRunningNoneWhenStopped ==
  stopper # "waiting" =>
    /\ running => Len(tasks) = Cardinality(Loops)
    /\ ~running => tasks = <<>>

----------------------------------------------------------------------------
(* Properties of the Kelly stakes, continued *)

\* C30: the result of calculate_kelly_stakes is consistent: total_kelly_stake
\* is the sum of the per-leg stakes returned in kelly_stakes (legs raised to
\* the minimum of 10 included), bankroll_percentage is total_kelly_stake /
\* bankroll x 100, and a leg whose scaled Kelly fraction is not positive has
\* no stake.
C30_KellyResultIsConsistent ==
  pc = "kelly" =>
    /\ result.total_kelly_stake = SumStakes(result.kelly_stakes, DOMAIN result.kelly_stakes)
    /\ result.bankroll_percentage =
         Ratio(result.total_kelly_stake.num * 100,
               result.total_kelly_stake.den * DEFAULT_BANKROLL)
    /\ \A leg \in DOMAIN result.true_prob :
         KellyFraction(result.bookmaker_odds[leg[1]][leg[2]]).num <= 0
           => leg \notin DOMAIN result.kelly_stakes

----------------------------------------------------------------------------
(* Properties of the persistence of a cycle *)

\* C27: persisting the candidates of a detection cycle is all-or-nothing:
\* while the cycle stores, the table does not change; the cycle ends either
\* with every pending row added and its opportunities returned, or, if the
\* duplicate check, an insert or the commit failed, with the table as it was
\* and an empty list returned.
C27_PersistenceIsAllOrNothing ==
  [][LET self == detectors[1]
         after == detectors'[1]
     IN (self.pc \in {"store", "commit"} /\ after # self) =>
          IF after.pc # "idle"
          THEN arbitrage_opportunities' = arbitrage_opportunities
          ELSE IF result'.error
          THEN /\ arbitrage_opportunities' = arbitrage_opportunities
               /\ result'.opportunities = <<>>
          ELSE /\ self.pc = "commit"
               /\ arbitrage_opportunities' =
                    arbitrage_opportunities \o Rows(self.pending, self.txn_start, 1)
               /\ result'.opportunities = self.found]_vars

\* a cycle has failed while storing, after an earlier cycle had stored rows
C27_Witness ==
  /\ detectors[1].pc = "idle"
  /\ result.kind = "cycle" /\ result.error
  /\ arbitrage_opportunities # <<>>
  /\ \E s \in odds_snapshots : \A i \in Ids : arbitrage_opportunities[i].event_id # s.event_id

----------------------------------------------------------------------------
(* The selection of the scoring tick over a table of more rows than the     *)
(* limit, in every status, expired and not                                  *)

MaxBatchRows == 6

\* the profit of the i-th row stored: no two alike, in no order
BatchProfits == <<300, 250, 501, 280, 700, 260, 400, 350>>

\* status and age, in minutes, of the rows of the table
BatchKinds ==
  {<<"detected", 0>>, <<"detected", EXPIRY_MINUTES>>, <<"analyzed", 0>>,
   <<"executed", 0>>, <<"expired", EXPIRY_MINUTES>>}

InitBatch ==
  /\ now = EXPIRY_MINUTES
  /\ event \in StoreEvents
  /\ odds_snapshots = {}
  /\ market_data = <<>>
  /\ market_size = 0
  /\ odds_by_market = <<>>
  /\ result = None
  /\ pc = "batch"
  /\ arbitrage_opportunities = <<>>
  /\ detectors = <<>>
  /\ scorer = IdleScorer
  /\ analyses = {}
  /\ NoManager

\* a row of the table: stored by a detection cycle some minutes ago, and
\* since then analyzed, executed or swept
Stored ==
  /\ Len(arbitrage_opportunities) < MaxBatchRows
  /\ \E kind \in BatchKinds :
       LET profit == BatchProfits[Len(arbitrage_opportunities) + 1]
           opp == [ScoringOpportunity(profit, BASE_RISK)
                     EXCEPT !.expires_at = now - kind[2] + EXPIRY_MINUTES]
       IN arbitrage_opportunities' =
            Append(arbitrage_opportunities,
                   [Row(opp, now - kind[2]) EXCEPT !.status = kind[1]])
  /\ UNCHANGED <<now, event, odds_snapshots, scratch, manager, detectors, scorer, analyses>>

NextBatch ==
  \/ Stored
  \/ batch_analyze_opportunities
  \/ BatchAnalyze
  \/ BatchUpdate

SpecBatch == InitBatch /\ [][NextBatch]_vars

\* the rows a scoring tick may select, at the time t of the selection
Eligible(t) ==
  {i \in Ids : /\ arbitrage_opportunities[i].status = "detected"
               /\ arbitrage_opportunities[i].expires_at > t}

\* C25: a scoring tick selects at most 5 opportunities, all of them detected
\* and not yet expired at the selection, the most profitable ones in
\* descending order of profit; the opportunities it submits to the Analyzer
\* are the selected ones, one after another.
C25_TickSubmitsTheFiveBestDetected ==
  /\ [](Len(scorer.queue) + (IF scorer.pc = "ai" THEN 1 ELSE 0) <= 5)
  /\ [][(scorer.pc = "idle" /\ scorer' # scorer) =>
          LET q == scorer'.queue
          IN /\ Len(q) <= 5
             /\ \A i \in DOMAIN q : q[i] \in Eligible(now)
             /\ \A i, j \in DOMAIN q :
                  i < j => arbitrage_opportunities[q[i]].profit_percentage
                             >= arbitrage_opportunities[q[j]].profit_percentage
             /\ \A i, j \in DOMAIN q : i # j => q[i] # q[j]
             /\ \A x \in Eligible(now) :
                  (\A i \in DOMAIN q : q[i] # x) =>
                    /\ Len(q) = 5
                    /\ \A i \in DOMAIN q :
                         arbitrage_opportunities[q[i]].profit_percentage
                           >= arbitrage_opportunities[x].profit_percentage]_vars
  /\ [][(scorer.pc = "batch" /\ scorer' # scorer) =>
          /\ scorer'.queue = Tail(scorer.queue)
          /\ scorer'.pc = "ai" => scorer'.current = Head(scorer.queue)]_vars

\* a tick that had six detected live rows to choose from and has submitted
\* the first of the five it selected
C25_Witness ==
  /\ scorer.pc = "ai"
  /\ Len(scorer.queue) = 4
  /\ \E i \in Ids : arbitrage_opportunities[i].status = "detected" /\ i # scorer.current
                      /\ \A j \in DOMAIN scorer.queue : scorer.queue[j] # i
                      /\ arbitrage_opportunities[i].expires_at > now

----------------------------------------------------------------------------
(* Properties of the Store under a single detection loop *)

\* the detection, scoring and cleanup loops, the collector and the execution
\* component; no analysis on demand
NextSingle ==
  \/ Tick
  \/ Collect
  \/ detect_arbitrage_opportunities(1)
  \/ _store_opportunities(1)
  \/ Commit(1)
  \/ Rollback(1)
  \/ batch_analyze_opportunities
  \/ BatchAnalyze
  \/ BatchUpdate
  \/ \E id \in DOMAIN arbitrage_opportunities : Execute(id)
  \/ _cleanup_expired_opportunities

SpecSingle == InitStore /\ [][NextSingle]_vars

\* a live opportunity: detected or analyzed, and not yet past its expiry
Live(i) ==
  /\ arbitrage_opportunities[i].status \in {"detected", "analyzed"}
  /\ arbitrage_opportunities[i].expires_at > now

----------------------------------------------------------------------------
(* The Store with a cleanup loop that keeps running *)

\* the cleanup loop is running and its sweeps succeed: a sweep that has rows
\* to expire is eventually done
SpecSweep == SpecStore /\ WF_vars(_cleanup_expired_opportunities)

\* the opportunity is due: detected or analyzed, its expires_at has passed
Due(i) ==
  /\ i \in Ids
  /\ arbitrage_opportunities[i].status \in LiveStatuses
  /\ arbitrage_opportunities[i].expires_at <= now

----------------------------------------------------------------------------
(* The loops under a fair event loop *)

\* the next step of the task of loop l: its first run, the end of its unit of
\* work or of a part of it, the end of its sleep
Proceed(l) ==
  \/ Run(l)
  \/ UnitReturns(l)
  \/ UnitRaises(l)
  \/ Begin(l)
  \/ CommitUnit(l)
  \/ PersistFails(l)
  \/ Wake(l)

\* the event loop resumes every task that can go on: awaited calls return
\* or raise, sleeps end
SpecFair == SpecLoops /\ \A l \in Loops : WF_vars(Proceed(l))

\* suspended outside a unit of work: not yet run, in the inter-tick sleep or
\* in the backoff after an error
Suspended(l) == l \in DOMAIN tasks /\ tasks[l].pc \in {"created", "sleep", "backoff"}

\* inside a unit of work (the collector's cooldown is part of its unit)
Working(l) == l \in DOMAIN tasks /\ tasks[l].pc \in {"work", "txn"}

\* C26: no loop blocks another: whatever the other tasks are doing (asleep,
\* backing off, inside a unit), a task that was not cancelled can take its
\* next step, and under a fair event loop every loop of a running manager
\* goes from its sleep to a unit of work and from the unit to its sleep,
\* again and again, until the manager is stopped.
C26_EveryLoopKeepsTicking ==
  /\ [](\A l \in Loops :
          (l \in DOMAIN tasks /\ ~tasks[l].cancel /\ tasks[l].pc \notin Terminated)
            => ENABLED <<Proceed(l)>>_vars)
  /\ \A l \in Loops :
       /\ (running /\ Suspended(l)) ~> (~running \/ Working(l))
       /\ (running /\ Working(l)) ~> (~running \/ Suspended(l))

\* the collection loop backing off after a failed transaction, the detection
\* loop asleep after a committed one, the scoring loop asleep, and the
\* cleanup loop inside a unit of work
C26_Witness ==
  /\ running
  /\ tasks[Collection].pc = "backoff" /\ tasks[Collection].failed
  /\ tasks[Detection].pc = "sleep" /\ tasks[Detection].txn = "committed"
  /\ tasks[Scoring].pc = "sleep"
  /\ tasks[Cleanup].pc = "txn"

====
